---- MODULE Spec2Model ----
(***************************************************************************)
(* Client reference manifests of next-build (next-swc):                    *)
(*   - get_client_reference_module_key, the manifest key of an export;     *)
(*   - the client reference proxy module and its marker asset;             *)
(*   - compute_app_client_references_chunks, the two-phase aggregation;    *)
(*   - compute_page_entries_chunks, the pages/build manifest aggregation.  *)
(*                                                                         *)
(* Strings that the code concatenates or compares (server paths, export    *)
(* names, manifest keys) are sequences of characters.  File system paths   *)
(* are sequences of path segments followed by a file name and extension.   *)
(***************************************************************************)
EXTENDS Integers, Sequences, FiniteSets, TLC

VARIABLES
    \* ---- get_client_reference_module_key (SpecKey)
    k_pc,           \* "input" | "keyed" | "split"
    k_path,         \* server_path argument
    k_name,         \* export_name argument
    k_key,          \* the returned key
    k_split,        \* the key split at its first "#"
    \* ---- the server graph and its traversal
    graph,          \* proxy and marker nodes of the server graph
    found,          \* ClientReferenceTypes the traversal discovered
    build_errors,   \* nodes whose references() failed
    \* ---- compute_app_client_references_chunks (Spec)
    pc,             \* "graph" | "idle" | "resolve" | "aggregate" | "done" | "failed"
    tys,            \* app_client_reference_tys
    refs,           \* app_client_references
    branch,         \* per type: the state of its branch of the join
    chunks_map,     \* app_client_references_chunks
    fold_todo,      \* types the first loop has not reached yet
    refs_todo,      \* references the second loop has not reached yet
    client_modules,       \* client_reference_manifest.client_modules
    ssr_module_mapping,   \* client_reference_manifest.ssr_module_mapping
    entry_css_files,      \* client_reference_manifest.entry_css_files
    all_chunks,     \* the caller's all_chunks
    result,         \* the returned map, None until the call returns Ok
    error,          \* the error of a failed call
    last,           \* the step taken last
    \* ---- compute_page_entries_chunks (SpecPages)
    pg_pc,          \* "idle" | "loop" | "done" | "failed"
    pg_next,        \* index of the page entry the loop reaches next
    page_entries,   \* page_entries.entries
    pages_manifest_dir_path,
    build_manifest_dir_path,
    pages_manifest, \* pages_manifest.pages
    build_manifest, \* build_manifest.pages
    \* ---- repeated calls on one manifest (SpecTwice)
    runs,           \* number of the call in progress
    produced,       \* per type: the manifest entries its first fold produced
    \* ---- transitions and marker assets (SpecAssets)
    t_pc,           \* "input" | "processed" | "inspected"
    t_asset,        \* the asset handed to a transition
    t_ssr,          \* NextServerToClientTransition.ssr
    t_out,          \* the Result of the transition
    t_compiled,     \* the process calls the transition made
    t_node,         \* the node whose accessors were read
    t_ident,        \* its ident()
    t_content,      \* its content()
    t_refs          \* its references()

keyVars == <<k_pc, k_path, k_name, k_key, k_split>>
graphVars == <<graph, found, build_errors>>
manifestVars == <<client_modules, ssr_module_mapping, entry_css_files>>
appVars == <<pc, tys, refs, branch, chunks_map, fold_todo, refs_todo,
             client_modules, ssr_module_mapping, entry_css_files,
             all_chunks, result, error, last>>
pageVars == <<pg_pc, pg_next, page_entries, pages_manifest_dir_path,
              build_manifest_dir_path, pages_manifest, build_manifest>>
runVars == <<runs, produced>>
assetVars == <<t_pc, t_asset, t_ssr, t_out, t_compiled, t_node, t_ident,
               t_content, t_refs>>
vars == <<keyVars, graphVars, appVars, pageVars, runVars, assetVars>>

-----------------------------------------------------------------------------
(* Generic helpers on sequences.                                           *)

None == <<>>
Some(x) == <<x>>

RECURSIVE Flatten(_)
Flatten(ss) == IF ss = <<>> THEN <<>> ELSE Head(ss) \o Flatten(Tail(ss))

\* iter().filter_map(f): f(x) is None or Some(y)
FilterMap(f(_), s) == Flatten([i \in 1..Len(s) |-> f(s[i])])

Range(s) == {s[i] : i \in 1..Len(s)}

-----------------------------------------------------------------------------
(* Strings.                                                                *)

\* Longest server path / export name drawn for the key function.
MaxLen == 2

Char == {"a", "#", "*"}

Strings(n) == UNION {[1..k -> Char] : k \in 0..n}

Star == <<"*">>
Hash == <<"#">>

\* app_client_reference.rs:266  fn get_client_reference_module_key
MutKeyNoSeparator(server_path, export_name) ==
    IF export_name = Star THEN server_path ELSE server_path \o export_name

get_client_reference_module_key(server_path, export_name) ==
    IF export_name = Star
    THEN server_path
    ELSE server_path \o Hash \o export_name

\* Position of the first "#" of a string, 0 when it has none.
FirstHash(s) ==
    IF \E i \in 1..Len(s) : s[i] = "#"
    THEN CHOOSE i \in 1..Len(s) : s[i] = "#" /\ \A j \in 1..(i-1) : s[j] # "#"
    ELSE 0

\* The reader of a manifest key: the part before the first "#" is the path,
\* the part after it the export name; a key without "#" is the wildcard key.
SplitKey(key) ==
    LET i == FirstHash(key) IN
    IF i = 0
    THEN [path |-> key, name |-> Star]
    ELSE [path |-> SubSeq(key, 1, i-1), name |-> SubSeq(key, i+1, Len(key))]

HasHash(s) == FirstHash(s) # 0

-----------------------------------------------------------------------------
(* File system paths: the directory segments, the file stem and the        *)
(* extension of the last segment.  A relative path has the same shape.      *)

FsPath(dir, stem, ext) == [dir |-> dir, stem |-> stem, ext |-> ext]

IsPrefix(r, d) == Len(r) <= Len(d) /\ SubSeq(d, 1, Len(r)) = r

\* FileSystemPath::get_path_to(root, inner): the path of inner relative to
\* root when inner lies under root, None otherwise.
get_path_to(root, inner) ==
    IF IsPrefix(root, inner.dir)
    THEN Some(FsPath(SubSeq(inner.dir, Len(root) + 1, Len(inner.dir)),
                     inner.stem, inner.ext))
    ELSE None

\* FileSystemPath::extension
extension(path) == path.ext

\* FileSystemPathVc::with_extension("")
with_extension(path, ext) == [path EXCEPT !.ext = ext]

client_root == <<"client">>
node_root == <<"node">>

-----------------------------------------------------------------------------
(* The chunking of the build, as the chunking contexts report it: chunk      *)
(* assets with their paths, modules with their chunk item id, their exports  *)
(* and their chunk group.                                                    *)

\* A chunk asset, known by the path of its ident.
Chunk(path) == [ident |-> [path |-> path]]

\* chunk.ident().path()
ChunkPath(chunk) == chunk.ident.path

c_js == Chunk(FsPath(<<"client", "static">>, "b", "js"))
c_css == Chunk(FsPath(<<"client", "static">>, "b", "css"))
c_out == Chunk(FsPath(<<"cache">>, "x", "css"))
s_js == Chunk(FsPath(<<"node", "chunks">>, "a", "js"))
s_out == Chunk(FsPath(<<"cache">>, "s", "js"))
p0 == Chunk(FsPath(<<"node", "server", "pages">>, "p0", "js"))

NumberId(n) == [tag |-> "Number", val |-> n]
StringId(s) == [tag |-> "String", val |-> s]

ClientModules == {"cmA", "cmB", "cmC", "cmD", "cmE"}
SsrModules == {"smA", "smB"}
CssModules == {"cssA"}

Default == <<"default">>
Foo == <<"foo">>
Bar == <<"bar">>

EsmExports(names, star) == [kind |-> "EsmExports", exports |-> names, star_exports |-> star]
CommonJs == [kind |-> "CommonJs", exports |-> <<>>, star_exports |-> <<>>]
ValueExports == [kind |-> "Value", exports |-> <<>>, star_exports |-> <<>>]

\* client_asset.get_exports(): the export names in the order of the map
get_exports(m) ==
    CASE m = "cmA" -> EsmExports(<<Default, Foo>>, <<>>)
      [] m = "cmB" -> EsmExports(<<Bar, Foo>>, <<>>)
      [] m = "cmC" -> CommonJs
      [] m = "cmD" -> EsmExports(<<Foo>>, <<"./other">>)
      [] OTHER     -> ValueExports

\* as_chunk_item(chunking_context).id()
chunk_item_id(m) ==
    CASE m = "cmA" -> NumberId(3)
      [] m = "cmB" -> NumberId(3)
      [] m = "cmC" -> StringId("cmC")
      [] m = "cmD" -> NumberId(5)
      [] m = "cmE" -> NumberId(6)
      [] m = "smA" -> NumberId(7)
      [] m = "smB" -> StringId("smB")
      [] OTHER     -> NumberId(9)

\* chunking_context.chunk_group(asset.as_root_chunk(chunking_context))
chunk_group(m) ==
    CASE m = "cmA" -> <<c_js, c_css>>
      [] m = "cmB" -> <<c_css, c_out, c_js>>
      [] m = "cmC" -> <<c_js>>
      [] m = "cmD" -> <<c_js>>
      [] m = "cmE" -> <<c_js>>
      [] m = "smA" -> <<s_js>>
      [] m = "smB" -> <<s_out, s_js>>
      [] m = "cssA" -> <<c_css, c_js>>
      [] OTHER     -> <<>>

\* AssetIdent: a path and its modifiers
Ident(path, modifiers) == [path |-> path, modifiers |-> modifiers]

with_modifier(ident, modifier) ==
    [ident EXCEPT !.modifiers = Append(@, modifier)]

-----------------------------------------------------------------------------
(* Results and maps.                                                       *)

Ok(v) == [ok |-> TRUE, val |-> v]
Err(e) == [ok |-> FALSE, val |-> e]

EmptyMap == <<>>

\* HashMap::insert: the value of an existing key is replaced
Insert(m, k, v) == [x \in (DOMAIN m) \cup {k} |-> IF x = k THEN v ELSE m[x]]

Has(m, k) == k \in DOMAIN m

-----------------------------------------------------------------------------
(* Marker assets and the client reference proxy module.                    *)

\* ecmascript_client_reference_asset.rs: EcmascriptClientReferenceAssetVc::new
EcmascriptClientReferenceAsset(server_ident, client_asset, ssr_asset) ==
    [variant |-> "Ecmascript", server_ident |-> server_ident,
     client_asset |-> client_asset, ssr_asset |-> ssr_asset]

\* css_client_reference_asset.rs: CssClientReferenceAssetVc::new
CssClientReferenceAsset(client_asset) ==
    [variant |-> "Css", client_asset |-> client_asset]

\* ecmascript_client_reference_proxy_module_asset.rs:
\* EcmascriptClientReferenceProxyModuleAssetVc::new
EcmascriptClientReferenceProxyModuleAsset(server_module_ident, client_module, ssr_module) ==
    [variant |-> "Proxy", server_module_ident |-> server_module_ident,
     client_module |-> client_module, ssr_module |-> ssr_module]

\* A module as the asset context hands it out: its ident and what it can be
\* resolved to ("ecmascript": EcmascriptChunkPlaceable, "css":
\* CssChunkPlaceable, "other": neither).
Asset(asset_ident, kind) == [ident |-> asset_ident, kind |-> kind]

\* EcmascriptChunkPlaceableVc::resolve_from
resolve_from(asset) == IF asset.kind = "ecmascript" THEN Some(asset) ELSE None

\* server_component_asset.rs: NextServerComponentAssetVc::new
NextServerComponentAsset(asset) == [variant |-> "ServerComponent", asset |-> asset]

\* dynamic_asset.rs: NextDynamicEntryAssetVc::new
NextDynamicEntryAsset(client_entry_asset) ==
    [variant |-> "Dynamic", client_entry_asset |-> client_entry_asset]

Stmt(kind, alias, named) == [stmt |-> kind, alias |-> alias, named |-> named]

NoAlias == 0 - 1

\* the statements written before the exports are inspected
ProxyPrelude ==
    << Stmt("import createProxy", NoAlias, <<>>),
       Stmt("const proxy = createProxy(server_module_path)", NoAlias, <<>>),
       Stmt("const { __esModule, $$typeof } = proxy", NoAlias, <<>>),
       Stmt("const __default__ = proxy.default", NoAlias, <<>>) >>

SentinelAndDefault ==
    << Stmt("export { __esModule, $$typeof }", NoAlias, <<>>),
       Stmt("export default __default__", NoAlias, <<>>) >>

MutEsmExportStatementsSameAlias(names, cnt) ==
    Flatten([ i \in 1..Len(names) |->
                IF names[i] = Default
                THEN SentinelAndDefault
                ELSE << Stmt("const e = proxy[named]", cnt, names[i]),
                        Stmt("export { e as named }", cnt, names[i]) >> ])

\* the loop over esm_exports.exports.keys(), cnt counting the named exports
RECURSIVE EsmExportStatements(_, _)
EsmExportStatements(names, cnt) ==
    IF names = <<>> THEN <<>>
    ELSE IF Head(names) = Default
         THEN SentinelAndDefault \o EsmExportStatements(Tail(names), cnt)
         ELSE << Stmt("const e = proxy[named]", cnt, Head(names)),
                 Stmt("export { e as named }", cnt, Head(names)) >>
              \o EsmExportStatements(Tail(names), cnt + 1)

MutProxyIgnoresStarExports(this) ==
    LET exports == get_exports(this.client_module) IN
    CASE exports.kind = "EsmExports" ->
            Ok(ProxyPrelude \o EsmExportStatements(exports.exports, 0))
      [] exports.kind = "CommonJs" -> Ok(ProxyPrelude \o SentinelAndDefault)
      [] OTHER -> Err("unsupported exports type")

MutProxyCommonJsUnsupported(this) ==
    LET exports == get_exports(this.client_module) IN
    CASE exports.kind = "EsmExports" ->
            IF exports.star_exports # <<>>
            THEN Err("unsupported export *")
            ELSE Ok(ProxyPrelude \o EsmExportStatements(exports.exports, 0))
      [] OTHER -> Err("unsupported exports type")

MutProxySentinelAfterLoop(this) ==
    LET exports == get_exports(this.client_module) IN
    CASE exports.kind = "EsmExports" ->
            IF exports.star_exports # <<>>
            THEN Err("unsupported export *")
            ELSE Ok(ProxyPrelude \o EsmExportStatements(exports.exports, 0)
                        \o SentinelAndDefault)
      [] exports.kind = "CommonJs" -> Ok(ProxyPrelude \o SentinelAndDefault)
      [] OTHER -> Err("unsupported exports type")

\* proxy_module_asset: the generated module, or the error of the generation
proxy_module_asset(this) ==
    LET exports == get_exports(this.client_module) IN
    CASE exports.kind = "EsmExports" ->
            IF exports.star_exports # <<>>
            THEN Err("unsupported export *")
            ELSE Ok(ProxyPrelude \o EsmExportStatements(exports.exports, 0))
      [] exports.kind = "CommonJs" -> Ok(ProxyPrelude \o SentinelAndDefault)
      [] OTHER -> Err("unsupported exports type")

AssetReference(description, asset) == [description |-> description, asset |-> asset]

\* the references of the compiled proxy module: its import of module-proxy
ModuleReferences(code) ==
    FilterMap(LAMBDA st : IF st.stmt = "import createProxy"
                          THEN Some(AssetReference("import", "module-proxy"))
                          ELSE None,
              code)

\* a marker built with the client and the SSR module exchanged
MutReferencesSwappedModules(this) ==
    LET module == proxy_module_asset(this) IN
    IF ~module.ok
    THEN module
    ELSE Ok(ModuleReferences(module.val)
            \o << AssetReference("client references",
                     EcmascriptClientReferenceAsset(this.server_module_ident,
                                                    this.ssr_module,
                                                    this.client_module)) >>)

\* EcmascriptClientReferenceProxyModuleAsset::references
references(this) ==
    LET module == proxy_module_asset(this) IN
    IF ~module.ok
    THEN module
    ELSE Ok(ModuleReferences(module.val)
            \o << AssetReference("client references",
                     EcmascriptClientReferenceAsset(this.server_module_ident,
                                                    this.client_module,
                                                    this.ssr_module)) >>)

-----------------------------------------------------------------------------
(* The server graph: the proxies NextEcmascriptClientReferenceTransition    *)
(* put in place of client components, and the markers of css modules.       *)

\* Most nodes of one graph.
MaxTypes == 2
\* Most client references handed to one call.
MaxRefs == 2

ProxyNodes ==
    { EcmascriptClientReferenceProxyModuleAsset(Ident(<<"app/a.tsx">>, <<>>), "cmA", "smA"),
      EcmascriptClientReferenceProxyModuleAsset(Ident(<<"app/b.tsx">>, <<>>), "cmB", "smB"),
      EcmascriptClientReferenceProxyModuleAsset(Ident(<<"app/c.js">>, <<>>), "cmC", "smA"),
      EcmascriptClientReferenceProxyModuleAsset(Ident(<<"app/d.tsx">>, <<>>), "cmD", "smA"),
      EcmascriptClientReferenceProxyModuleAsset(Ident(<<"app/e.json">>, <<>>), "cmE", "smB") }

CssNodes == { CssClientReferenceAsset(m) : m \in CssModules }

Nodes == ProxyNodes \cup CssNodes

\* server components (routes): NextServerComponentAsset.server_path()
ServerComponents ==
    { NextServerComponentAsset(
          Asset(Ident(FsPath(<<"app">>, "page", "tsx"), <<>>), "ecmascript")) }

\* NextServerComponentAssetVc::server_path: this.asset.ident().path()
server_path(this) == this.asset.ident.path

\* ClientReference { server_component, ty }
ClientReference(server_component, ty) ==
    [server_component |-> server_component, ty |-> ty]

\* The markers a traversal of the graph reaches: a css marker is a node of
\* the graph, an ecmascript marker is reachable only as a reference of its
\* proxy, so only when the references of the proxy can be computed.
MarkersOf(node) ==
    IF node.variant = "Css" THEN {node}
    ELSE LET r == references(node) IN
         IF r.ok
         THEN { r.val[i].asset : i \in { j \in 1..Len(r.val) :
                                          r.val[j].description = "client references" } }
         ELSE {}

FailedNodes(g) == { n \in g : n.variant = "Proxy" /\ ~references(n).ok }

-----------------------------------------------------------------------------
(* compute_app_client_references_chunks                                     *)

ClientReferenceChunks(client_chunks, ssr_chunks) ==
    [client_chunks |-> client_chunks, ssr_chunks |-> ssr_chunks]

MutCssBranchWithSsrChunks(ty) ==
    IF ty.variant = "Ecmascript"
    THEN ClientReferenceChunks(chunk_group(ty.client_asset), chunk_group(ty.ssr_asset))
    ELSE ClientReferenceChunks(chunk_group(ty.client_asset), chunk_group(ty.client_asset))

\* lines 45-69: the value of one branch of the join
BranchChunks(ty) ==
    IF ty.variant = "Ecmascript"
    THEN ClientReferenceChunks(chunk_group(ty.client_asset), chunk_group(ty.ssr_asset))
    ELSE ClientReferenceChunks(chunk_group(ty.client_asset), <<>>)

\* lines 274-279
convert_module_id(module_id) ==
    IF module_id.tag = "String" THEN StringId(module_id.val) ELSE NumberId(module_id.val)

ManifestNodeEntry(name, id, chunks) ==
    [name |-> name, id |-> id, chunks |-> chunks, async |-> FALSE]

\* a chunk outside the client root kept with its full path
MutClientChunksPathsKeepOutside(chunks) ==
    [ i \in 1..Len(chunks) |->
        LET rel == get_path_to(client_root, ChunkPath(chunks[i]))
        IN IF rel = None THEN ChunkPath(chunks[i]) ELSE rel[1] ]

\* lines 104-113: the client chunk paths relative to the client root
ClientChunksPaths(chunks) ==
    FilterMap(LAMBDA c : get_path_to(client_root, ChunkPath(c)), chunks)

\* lines 115-124: the SSR chunk paths relative to the node root
SsrChunksPaths(chunks) ==
    FilterMap(LAMBDA c : get_path_to(node_root, ChunkPath(c)), chunks)

\* a default entry written for exports that are not ESM
MutExportNamesDefaultForOthers(exports) ==
    IF exports.kind = "EsmExports" THEN exports.exports ELSE <<Default>>

\* lines 133-170: the export names the match arm iterates over
ExportNames(exports) ==
    IF exports.kind = "EsmExports" THEN exports.exports ELSE <<>>

\* an entry that is extended when its key is already there, not replaced
RECURSIVE MutInsertClientExportsExtend(_, _, _, _, _)
MutInsertClientExportsExtend(cm, names, path, id, chunks) ==
    IF names = <<>> THEN cm
    ELSE LET key == get_client_reference_module_key(path, Head(names))
             before == IF Has(cm, key) THEN cm[key].chunks ELSE <<>>
         IN MutInsertClientExportsExtend(
                Insert(cm, key,
                       ManifestNodeEntry(Head(names), convert_module_id(id),
                                         before \o chunks)),
                Tail(names), path, id, chunks)

\* lines 136-155, for each export name in turn
RECURSIVE InsertClientExports(_, _, _, _, _)
InsertClientExports(cm, names, path, id, chunks) ==
    IF names = <<>> THEN cm
    ELSE InsertClientExports(
            Insert(cm, get_client_reference_module_key(path, Head(names)),
                   ManifestNodeEntry(Head(names), convert_module_id(id), chunks)),
            Tail(names), path, id, chunks)

\* lines 156-165, for each export name in turn
RECURSIVE InsertSsrExports(_, _, _, _)
InsertSsrExports(node, names, id, chunks) ==
    IF names = <<>> THEN node
    ELSE InsertSsrExports(
            Insert(node, Head(names),
                   ManifestNodeEntry(Head(names), convert_module_id(id), chunks)),
            Tail(names), id, chunks)

\* lines 128-184: client_modules after the fold of one Ecmascript type
FoldClientModules(cm, ty, chunks) ==
    LET id == chunk_item_id(ty.client_asset)
        path == ty.server_ident.path
        paths == ClientChunksPaths(chunks.client_chunks)
        names == ExportNames(get_exports(ty.client_asset))
    IN Insert(InsertClientExports(cm, names, path, id, paths),
              get_client_reference_module_key(path, Star),
              ManifestNodeEntry(Star, convert_module_id(id), paths))

\* lines 126-195: the ssr_manifest_node of one Ecmascript type
SsrManifestNode(ty, chunks) ==
    LET id == chunk_item_id(ty.ssr_asset)
        paths == SsrChunksPaths(chunks.ssr_chunks)
        names == ExportNames(get_exports(ty.client_asset))
    IN Insert(InsertSsrExports(EmptyMap, names, id, paths),
              Star, ManifestNodeEntry(Star, convert_module_id(id), paths))

\* the node of a client module id merged with the node already stored
MutSsrMappingMerges(mapping, ty, chunks) ==
    LET id == convert_module_id(chunk_item_id(ty.client_asset))
        node == SsrManifestNode(ty, chunks)
        old == IF Has(mapping, id) THEN mapping[id] ELSE EmptyMap
    IN Insert(mapping, id,
              [ n \in DOMAIN old \cup DOMAIN node |->
                  IF Has(node, n) THEN node[n] ELSE old[n] ])

MutSsrMappingKeyedBySsrId(mapping, ty, chunks) ==
    Insert(mapping, convert_module_id(chunk_item_id(ty.ssr_asset)),
           SsrManifestNode(ty, chunks))

\* lines 197-199
FoldSsrModuleMapping(mapping, ty, chunks) ==
    Insert(mapping, convert_module_id(chunk_item_id(ty.client_asset)),
           SsrManifestNode(ty, chunks))

\* lines 136-139, 177-180, 197-199: the entries the fold of one Ecmascript
\* type leaves in the manifest: those of client_modules under its keys and
\* the node of ssr_module_mapping under its client module id
InsertedEntries(cm, mapping, ty) ==
    LET names == Range(ExportNames(get_exports(ty.client_asset))) \cup {Star}
        keys == { get_client_reference_module_key(ty.server_ident.path, n) : n \in names }
        id == convert_module_id(chunk_item_id(ty.client_asset))
    IN [client |-> [k \in keys \cap DOMAIN cm |-> cm[k]],
        node |-> IF Has(mapping, id) THEN mapping[id] ELSE EmptyMap]

\* lines 216-220: the entry name of a server component
EntryName(sc) == with_extension(server_path(sc), "")

\* a Css reference that adds the stylesheet chunks only
MutCssReferenceOnlyCss(chunks) ==
    FilterMap(LAMBDA c : IF extension(ChunkPath(c)) = "css"
                         THEN get_path_to(client_root, ChunkPath(c))
                         ELSE None,
              chunks)

\* lines 234-239: what a Css reference adds to entry_css_files
CssReferencePaths(chunks) ==
    FilterMap(LAMBDA c : get_path_to(client_root, ChunkPath(c)), chunks)

MutEcmascriptReferenceAllPaths(chunks) ==
    FilterMap(LAMBDA c : get_path_to(client_root, ChunkPath(c)), chunks)

\* lines 241-252: what an Ecmascript reference adds to entry_css_files
EcmascriptReferencePaths(chunks) ==
    FilterMap(LAMBDA c : IF extension(ChunkPath(c)) = "css"
                         THEN get_path_to(client_root, ChunkPath(c))
                         ELSE None,
              chunks)

\* lines 228-231: entry(entry_name).or_insert_with(Default::default)
EntryOrDefault(m, k) == IF Has(m, k) THEN m[k] ELSE <<>>

Pending == [state |-> "pending"]
Resolved(chunks) == [state |-> "ok", val |-> chunks]
Failed == [state |-> "err"]

NoError == [kind |-> "none"]
Step(op, arg) == [op |-> op, arg |-> arg]

\* The client references a traversal can report for the discovered types.
ReferencesOver(types) ==
    { ClientReference(sc, ty) :
        sc \in {None} \cup {Some(c) : c \in ServerComponents}, ty \in types }

\* all_chunks as the caller hands it over: the chunks pushed before the call
InitialChunks == <<p0>>

KeyIdle ==
    /\ k_pc = "idle"
    /\ k_path = <<>>
    /\ k_name = <<>>
    /\ k_key = <<>>
    /\ k_split = [path |-> <<>>, name |-> <<>>]

PagesIdle ==
    /\ pg_pc = "idle"
    /\ pg_next = 0
    /\ page_entries = <<>>
    /\ pages_manifest_dir_path = <<>>
    /\ build_manifest_dir_path = <<>>
    /\ pages_manifest = EmptyMap
    /\ build_manifest = EmptyMap

RunIdle ==
    /\ runs = 1
    /\ produced = EmptyMap

AssetIdle ==
    /\ t_pc = "idle"
    /\ t_asset = None
    /\ t_ssr = FALSE
    /\ t_out = None
    /\ t_compiled = {}
    /\ t_node = None
    /\ t_ident = None
    /\ t_content = None
    /\ t_refs = None

AppIdle ==
    /\ pc = "graph"
    /\ tys = {}
    /\ refs = {}
    /\ branch = EmptyMap
    /\ chunks_map = EmptyMap
    /\ fold_todo = {}
    /\ refs_todo = {}
    /\ client_modules = EmptyMap
    /\ ssr_module_mapping = EmptyMap
    /\ entry_css_files = EmptyMap
    /\ all_chunks = InitialChunks
    /\ result = None
    /\ error = NoError
    /\ last = Step("init", "-")

Init ==
    /\ KeyIdle
    /\ graph \in { g \in SUBSET Nodes : Cardinality(g) <= MaxTypes }
    /\ found = {}
    /\ build_errors = {}
    /\ AppIdle
    /\ PagesIdle
    /\ RunIdle
    /\ AssetIdle

\* The traversal of the server graph that collects the client references.
Traverse ==
    /\ pc = "graph"
    /\ found' = UNION { MarkersOf(n) : n \in graph }
    /\ build_errors' = FailedNodes(graph)
    /\ pc' = "idle"
    /\ last' = Step("traverse", "-")
    /\ UNCHANGED <<graph, tys, refs, branch, chunks_map, fold_todo, refs_todo,
                   manifestVars, all_chunks, result, error, keyVars, pageVars, runVars, assetVars>>

\* lines 30-39: the call, with the types and the references of the traversal
Call ==
    /\ pc = "idle"
    /\ \E T \in SUBSET found :
       \E R \in SUBSET ReferencesOver(found) :
          /\ Cardinality(R) <= MaxRefs
          /\ tys' = T
          /\ refs' = R
          /\ branch' = [t \in T |-> Pending]
    /\ pc' = "resolve"
    /\ last' = Step("call", "-")
    /\ UNCHANGED <<graphVars, chunks_map, fold_todo, refs_todo, manifestVars,
                   all_chunks, result, error, keyVars, pageVars, runVars, assetVars>>

\* lines 42-71: one branch of the join completes
BranchOk(ty) ==
    /\ pc = "resolve"
    /\ ty \in tys
    /\ branch[ty].state = "pending"
    /\ branch' = [branch EXCEPT ![ty] = Resolved(BranchChunks(ty))]
    /\ last' = Step("branch", ty)
    /\ UNCHANGED <<graphVars, pc, tys, refs, chunks_map, fold_todo, refs_todo,
                   manifestVars, all_chunks, result, error, keyVars, pageVars, runVars, assetVars>>

\* lines 47, 60: the await of the reference fails in one branch
BranchErr(ty) ==
    /\ pc = "resolve"
    /\ ty \in tys
    /\ branch[ty].state = "pending"
    /\ branch' = [branch EXCEPT ![ty] = Failed]
    /\ last' = Step("branch_err", ty)
    /\ UNCHANGED <<graphVars, pc, tys, refs, chunks_map, fold_todo, refs_todo,
                   manifestVars, all_chunks, result, error, keyVars, pageVars, runVars, assetVars>>

\* a join that drops the failed branches and goes on with the others
MutJoinSkipsFailed ==
    /\ pc = "resolve"
    /\ \A ty \in tys : branch[ty].state # "pending"
    /\ chunks_map' = [ty \in { t \in tys : branch[t].state = "ok" } |-> branch[ty].val]
    /\ fold_todo' = { t \in tys : branch[t].state = "ok" }
    /\ refs_todo' = refs
    /\ pc' = "aggregate"
    /\ last' = Step("join", "-")
    /\ UNCHANGED <<graphVars, tys, refs, branch, manifestVars, all_chunks,
                   result, error, keyVars, pageVars, runVars, assetVars>>

\* a join that hands over as soon as one branch has completed
MutJoinBeforeBranchesComplete ==
    /\ pc = "resolve"
    /\ \E ty \in tys : branch[ty].state = "ok"
    /\ \A ty \in tys : branch[ty].state # "err"
    /\ chunks_map' = [ty \in { t \in tys : branch[t].state = "ok" } |-> branch[ty].val]
    /\ fold_todo' = { t \in tys : branch[t].state = "ok" }
    /\ refs_todo' = refs
    /\ pc' = "aggregate"
    /\ last' = Step("join", "-")
    /\ UNCHANGED <<graphVars, tys, refs, branch, manifestVars, all_chunks,
                   result, error, keyVars, pageVars, runVars, assetVars>>

\* lines 72-75: try_join of branches that all succeeded
JoinOk ==
    /\ pc = "resolve"
    /\ \A ty \in tys : branch[ty].state = "ok"
    /\ chunks_map' = [ty \in tys |-> branch[ty].val]
    /\ fold_todo' = tys
    /\ refs_todo' = refs
    /\ pc' = "aggregate"
    /\ last' = Step("join", "-")
    /\ UNCHANGED <<graphVars, tys, refs, branch, manifestVars, all_chunks,
                   result, error, keyVars, pageVars, runVars, assetVars>>

\* lines 72-73: try_join with a failed branch, and the ? that returns its error
JoinErr ==
    /\ pc = "resolve"
    /\ \E ty \in tys :
          /\ branch[ty].state = "err"
          /\ error' = [kind |-> "branch", at |-> ty]
    /\ pc' = "failed"
    /\ last' = Step("join_err", "-")
    /\ UNCHANGED <<graphVars, tys, refs, branch, chunks_map, fold_todo, refs_todo,
                   manifestVars, all_chunks, result, keyVars, pageVars, runVars, assetVars>>

\* a fold that adds to all_chunks only the chunks it does not hold yet
MutFoldEcmascriptUnion(ty) ==
    /\ pc = "aggregate"
    /\ ty \in fold_todo
    /\ ty.variant = "Ecmascript"
    /\ all_chunks' =
          all_chunks \o SelectSeq(chunks_map[ty].client_chunks \o chunks_map[ty].ssr_chunks,
                                  LAMBDA ch : ch \notin Range(all_chunks))
    /\ client_modules' = FoldClientModules(client_modules, ty, chunks_map[ty])
    /\ ssr_module_mapping' = FoldSsrModuleMapping(ssr_module_mapping, ty, chunks_map[ty])
    /\ fold_todo' = fold_todo \ {ty}
    /\ last' = Step("fold_ecmascript", ty)
    /\ produced' = IF Has(produced, ty) THEN produced
                   ELSE Insert(produced, ty,
                               InsertedEntries(client_modules', ssr_module_mapping', ty))
    /\ UNCHANGED <<graphVars, pc, tys, refs, branch, chunks_map, refs_todo,
                   entry_css_files, result, error, keyVars, pageVars, runs, assetVars>>

\* lines 79-200: the fold of one Ecmascript type
FoldEcmascript(ty) ==
    /\ pc = "aggregate"
    /\ ty \in fold_todo
    /\ ty.variant = "Ecmascript"
    /\ all_chunks' = all_chunks \o chunks_map[ty].client_chunks
                                \o chunks_map[ty].ssr_chunks
    /\ client_modules' = FoldClientModules(client_modules, ty, chunks_map[ty])
    /\ ssr_module_mapping' = FoldSsrModuleMapping(ssr_module_mapping, ty, chunks_map[ty])
    /\ fold_todo' = fold_todo \ {ty}
    /\ last' = Step("fold_ecmascript", ty)
    /\ produced' = IF Has(produced, ty) THEN produced
                   ELSE Insert(produced, ty,
                               InsertedEntries(client_modules', ssr_module_mapping', ty))
    /\ UNCHANGED <<graphVars, pc, tys, refs, branch, chunks_map, refs_todo,
                   entry_css_files, result, error, keyVars, pageVars, runs, assetVars>>

\* the chunk lists awaited only after the manifest entries were inserted
MutFoldChunksErrAfterInsert(ty) ==
    /\ pc = "aggregate"
    /\ ty \in fold_todo
    /\ ty.variant = "Ecmascript"
    /\ client_modules' = FoldClientModules(client_modules, ty, chunks_map[ty])
    /\ ssr_module_mapping' = FoldSsrModuleMapping(ssr_module_mapping, ty, chunks_map[ty])
    /\ pc' = "failed"
    /\ error' = [kind |-> "chunks", at |-> ty]
    /\ last' = Step("fold_ecmascript_err", ty)
    /\ UNCHANGED <<graphVars, tys, refs, branch, chunks_map, fold_todo, refs_todo,
                   entry_css_files, all_chunks, result, keyVars, pageVars, runVars, assetVars>>

\* lines 80-81: the await of a chunk list fails
FoldEcmascriptChunksErr(ty) ==
    /\ pc = "aggregate"
    /\ ty \in fold_todo
    /\ ty.variant = "Ecmascript"
    /\ pc' = "failed"
    /\ error' = [kind |-> "chunks", at |-> ty]
    /\ last' = Step("fold_ecmascript_err", ty)
    /\ UNCHANGED <<graphVars, tys, refs, branch, chunks_map, fold_todo, refs_todo,
                   manifestVars, all_chunks, result, keyVars, pageVars, runVars, assetVars>>

\* lines 85-134: an await after all_chunks was extended fails (the
\* reference, a module id, the server path, a chunk path, the exports)
FoldEcmascriptModuleErr(ty) ==
    /\ pc = "aggregate"
    /\ ty \in fold_todo
    /\ ty.variant = "Ecmascript"
    /\ all_chunks' = all_chunks \o chunks_map[ty].client_chunks
                                \o chunks_map[ty].ssr_chunks
    /\ pc' = "failed"
    /\ error' = [kind |-> "module", at |-> ty]
    /\ last' = Step("fold_ecmascript_err", ty)
    /\ UNCHANGED <<graphVars, tys, refs, branch, chunks_map, fold_todo, refs_todo,
                   manifestVars, result, keyVars, pageVars, runVars, assetVars>>

\* a fold of a Css type that writes a client_modules entry for it
MutFoldCssInsertsEntry(ty) ==
    /\ pc = "aggregate"
    /\ ty \in fold_todo
    /\ ty.variant = "Css"
    /\ all_chunks' = all_chunks \o chunks_map[ty].client_chunks
    /\ client_modules' =
          Insert(client_modules, <<ty.client_asset>>,
                 ManifestNodeEntry(Star, convert_module_id(chunk_item_id(ty.client_asset)),
                                   ClientChunksPaths(chunks_map[ty].client_chunks)))
    /\ fold_todo' = fold_todo \ {ty}
    /\ last' = Step("fold_css", ty)
    /\ UNCHANGED <<graphVars, pc, tys, refs, branch, chunks_map, refs_todo,
                   ssr_module_mapping, entry_css_files, result, error, keyVars,
                   pageVars, runVars, assetVars>>

\* lines 201-204: the fold of one Css type
FoldCss(ty) ==
    /\ pc = "aggregate"
    /\ ty \in fold_todo
    /\ ty.variant = "Css"
    /\ all_chunks' = all_chunks \o chunks_map[ty].client_chunks
    /\ fold_todo' = fold_todo \ {ty}
    /\ last' = Step("fold_css", ty)
    /\ UNCHANGED <<graphVars, pc, tys, refs, branch, chunks_map, refs_todo,
                   manifestVars, result, error, keyVars, pageVars, runVars, assetVars>>

\* line 202: the await of the chunk list fails
FoldCssErr(ty) ==
    /\ pc = "aggregate"
    /\ ty \in fold_todo
    /\ ty.variant = "Css"
    /\ pc' = "failed"
    /\ error' = [kind |-> "chunks", at |-> ty]
    /\ last' = Step("fold_css_err", ty)
    /\ UNCHANGED <<graphVars, tys, refs, branch, chunks_map, fold_todo, refs_todo,
                   manifestVars, all_chunks, result, keyVars, pageVars, runVars, assetVars>>

\* lines 208-209: a reference without a server component is passed over
ReferenceSkip(r) ==
    /\ pc = "aggregate"
    /\ fold_todo = {}
    /\ r \in refs_todo
    /\ r.server_component = None
    /\ refs_todo' = refs_todo \ {r}
    /\ last' = Step("reference_skip", r)
    /\ UNCHANGED <<graphVars, pc, tys, refs, branch, chunks_map, fold_todo,
                   manifestVars, all_chunks, result, error, keyVars, pageVars, runVars, assetVars>>

\* a lookup that passes over a reference whose type has no chunks
MutReferenceSkipsMissing(r) ==
    /\ pc = "aggregate"
    /\ fold_todo = {}
    /\ r \in refs_todo
    /\ r.server_component # None
    /\ ~Has(chunks_map, r.ty)
    /\ refs_todo' = refs_todo \ {r}
    /\ last' = Step("reference_skip", r)
    /\ UNCHANGED <<graphVars, pc, tys, refs, branch, chunks_map, fold_todo,
                   manifestVars, all_chunks, result, error, keyVars, pageVars,
                   runVars, assetVars>>

\* lines 211-213: expect("client reference chunks not found") panics
ReferencePanic(r) ==
    /\ pc = "aggregate"
    /\ fold_todo = {}
    /\ r \in refs_todo
    /\ r.server_component # None
    /\ ~Has(chunks_map, r.ty)
    /\ pc' = "failed"
    /\ error' = [kind |-> "panic", at |-> r]
    /\ last' = Step("reference_panic", r)
    /\ UNCHANGED <<graphVars, tys, refs, branch, chunks_map, fold_todo, refs_todo,
                   manifestVars, all_chunks, result, keyVars, pageVars, runVars, assetVars>>

\* lines 214-226: an await of the iteration fails
ReferenceErr(r) ==
    /\ pc = "aggregate"
    /\ fold_todo = {}
    /\ r \in refs_todo
    /\ r.server_component # None
    /\ Has(chunks_map, r.ty)
    /\ pc' = "failed"
    /\ error' = [kind |-> "reference", at |-> r]
    /\ last' = Step("reference_err", r)
    /\ UNCHANGED <<graphVars, tys, refs, branch, chunks_map, fold_todo, refs_todo,
                   manifestVars, all_chunks, result, keyVars, pageVars, runVars, assetVars>>

\* lines 209-254: the css files of one reference are added to its entry
Reference(r) ==
    /\ pc = "aggregate"
    /\ fold_todo = {}
    /\ r \in refs_todo
    /\ r.server_component # None
    /\ Has(chunks_map, r.ty)
    /\ LET entry_name == EntryName(r.server_component[1])
           client_chunks == chunks_map[r.ty].client_chunks
           added == IF r.ty.variant = "Css"
                    THEN CssReferencePaths(client_chunks)
                    ELSE EcmascriptReferencePaths(client_chunks)
       IN entry_css_files' =
            Insert(entry_css_files, entry_name,
                   EntryOrDefault(entry_css_files, entry_name) \o added)
    /\ refs_todo' = refs_todo \ {r}
    /\ last' = Step("reference", r)
    /\ UNCHANGED <<graphVars, pc, tys, refs, branch, chunks_map, fold_todo,
                   client_modules, ssr_module_mapping, all_chunks, result, error,
                   keyVars, pageVars, runVars, assetVars>>

\* line 257: Ok(app_client_references_chunks)
Return ==
    /\ pc = "aggregate"
    /\ fold_todo = {}
    /\ refs_todo = {}
    /\ result' = Some(chunks_map)
    /\ pc' = "done"
    /\ last' = Step("return", "-")
    /\ UNCHANGED <<graphVars, tys, refs, branch, chunks_map, fold_todo, refs_todo,
                   manifestVars, all_chunks, error, keyVars, pageVars, runVars, assetVars>>

Next ==
    \/ Traverse
    \/ Call
    \/ \E ty \in tys : BranchOk(ty)
    \/ \E ty \in tys : BranchErr(ty)
    \/ JoinOk
    \/ JoinErr
    \/ \E ty \in fold_todo : FoldEcmascript(ty)
    \/ \E ty \in fold_todo : FoldEcmascriptChunksErr(ty)
    \/ \E ty \in fold_todo : FoldEcmascriptModuleErr(ty)
    \/ \E ty \in fold_todo : FoldCss(ty)
    \/ \E ty \in fold_todo : FoldCssErr(ty)
    \/ \E r \in refs_todo : ReferenceSkip(r)
    \/ \E r \in refs_todo : ReferencePanic(r)
    \/ \E r \in refs_todo : ReferenceErr(r)
    \/ \E r \in refs_todo : Reference(r)
    \/ Return

Spec == Init /\ [][Next]_vars

-----------------------------------------------------------------------------
(* The caller resolving the same types again into the same manifest.        *)

\* Most calls on one manifest.
MaxRuns == 2

\* lines 30-39: a further call that resolves the same types; the manifest
\* and all_chunks are the caller's and keep what they hold.  The call passes
\* no client references: the css files of the routes are in entry_css_files
\* since the first call.
CallAgain ==
    /\ pc = "done"
    /\ runs < MaxRuns
    /\ runs' = runs + 1
    /\ branch' = [t \in tys |-> Pending]
    /\ chunks_map' = EmptyMap
    /\ result' = None
    /\ pc' = "resolve"
    /\ last' = Step("call", "-")
    /\ refs' = {}
    /\ UNCHANGED <<graphVars, tys, fold_todo, refs_todo, manifestVars,
                   all_chunks, error, produced, keyVars, pageVars, assetVars>>

NextTwice == Next \/ CallAgain

SpecTwice == Init /\ [][NextTwice]_vars

-----------------------------------------------------------------------------
(* Properties of compute_app_client_references_chunks.                      *)

EcmascriptTypes(S) == { ty \in S : ty.variant = "Ecmascript" }
CssTypes(S) == { ty \in S : ty.variant = "Css" }

ExportNameUniverse == {Default, Foo, Bar, Star}

ClientId(ty) == convert_module_id(chunk_item_id(ty.client_asset))
SsrId(ty) == convert_module_id(chunk_item_id(ty.ssr_asset))

ManifestEmpty ==
    /\ client_modules = EmptyMap
    /\ ssr_module_mapping = EmptyMap
    /\ entry_css_files = EmptyMap

C2_NoEntryOnAnyFailure ==
    pc = "failed" => ManifestEmpty

\* C2 amended: a call that fails in the join adds no entry; a call that fails
\* in the sequential pass leaves in the manifest the entries of the types
\* folded before the failure, and only those; a failed call returns no map.
C2_OnlyFoldedEntriesOnFailure ==
    pc = "failed" =>
        /\ result = None
        /\ error.kind = "branch" => ManifestEmpty
        /\ \A k \in DOMAIN client_modules :
              \E ty \in EcmascriptTypes(tys \ fold_todo) :
                 SplitKey(k).path = ty.server_ident.path
        /\ \A c \in DOMAIN ssr_module_mapping :
              \E ty \in EcmascriptTypes(tys \ fold_todo) : c = ClientId(ty)
        /\ \A ty \in EcmascriptTypes(tys \ fold_todo) :
              error.kind # "branch" =>
                 /\ Has(client_modules, ty.server_ident.path)
                 /\ Has(ssr_module_mapping, ClientId(ty))

C2_Witness ==
    /\ pc = "failed"
    /\ error.kind \in {"chunks", "module"}
    /\ client_modules # EmptyMap
    /\ fold_todo # {}

C4_FoldEntries ==
    last.op = "fold_ecmascript" =>
        LET ty == last.arg
            p == ty.server_ident.path
            E == Range(ExportNames(get_exports(ty.client_asset)))
            c == chunk_item_id(ty.client_asset)
            s == chunk_item_id(ty.ssr_asset)
            CP == ClientChunksPaths(chunk_group(ty.client_asset))
            SP == SsrChunksPaths(chunk_group(ty.ssr_asset))
        IN /\ \A k \in {p} \cup { p \o Hash \o n : n \in E } :
                /\ Has(client_modules, k)
                /\ client_modules[k].id = c
                /\ client_modules[k].chunks = CP
           /\ Has(ssr_module_mapping, c)
           /\ \A n \in {Star} \cup E :
                /\ Has(ssr_module_mapping[c], n)
                /\ ssr_module_mapping[c][n].id = s
                /\ ssr_module_mapping[c][n].chunks = SP
           /\ ty.client_asset = "cmA" /\ ty.ssr_asset = "smA" =>
                /\ E = {Default, Foo}
                /\ client_modules[p \o Hash \o Foo] =
                     ManifestNodeEntry(Foo, NumberId(3),
                        << FsPath(<<"static">>, "b", "js"),
                           FsPath(<<"static">>, "b", "css") >>)
                /\ ssr_module_mapping[NumberId(3)][Foo] =
                     ManifestNodeEntry(Foo, NumberId(7),
                        << FsPath(<<"chunks">>, "a", "js") >>)

C4_Witness ==
    /\ last.op = "fold_ecmascript"
    /\ last.arg.client_asset = "cmA"
    /\ Has(client_modules, <<"app/a.tsx", "#", "foo">>)

StarExporting(node) ==
    /\ node.variant = "Proxy"
    /\ get_exports(node.client_module).kind = "EsmExports"
    /\ get_exports(node.client_module).star_exports # <<>>

\* C5: for a client component whose client module has a wildcard re-export,
\* proxy generation fails with the unsupported-export-pattern error, and the
\* aggregation produces no client_modules or ssr_module_mapping entry for it.
C5_StarExportNoEntries ==
    \A node \in graph :
        StarExporting(node) =>
            /\ ~proxy_module_asset(node).ok
            /\ proxy_module_asset(node).val = "unsupported export *"
            /\ pc # "graph" => node \in build_errors
            /\ \A ty \in tys : ty.variant = "Ecmascript" =>
                  ty.server_ident # node.server_module_ident
            /\ \A k \in DOMAIN client_modules :
                  SplitKey(k).path # node.server_module_ident.path
            /\ ~Has(ssr_module_mapping,
                    convert_module_id(chunk_item_id(node.client_module)))

C5_Witness ==
    /\ pc = "done"
    /\ \E node \in graph : StarExporting(node)
    /\ client_modules # EmptyMap

\* C6: an Ecmascript reference attributed to a route adds to
\* entry_css_files[route] the client-root-relative paths of its client chunks
\* whose extension is css and nothing else; the path of a client chunk with
\* another extension is not added.
C6_EcmascriptAddsCssOnly ==
    [][ (last'.op = "reference" /\ last'.arg.ty.variant = "Ecmascript") =>
          LET r == last'.arg
              route == EntryName(r.server_component[1])
              old == EntryOrDefault(entry_css_files, route)
              new == entry_css_files'[route]
              added == SubSeq(new, Len(old) + 1, Len(new))
              group == Range(chunk_group(r.ty.client_asset))
          IN /\ Len(new) >= Len(old)
             /\ SubSeq(new, 1, Len(old)) = old
             /\ \A i \in 1..Len(added) : added[i].ext = "css"
             /\ \A ch \in group :
                   LET rel == get_path_to(client_root, ChunkPath(ch)) IN
                   /\ (extension(ChunkPath(ch)) # "css" /\ rel # None)
                         => rel[1] \notin Range(added)
                   /\ (extension(ChunkPath(ch)) = "css" /\ rel # None)
                         => rel[1] \in Range(added)
             /\ \A k \in DOMAIN entry_css_files :
                   k # route => entry_css_files'[k] = entry_css_files[k]
      ]_vars

C6_Witness ==
    /\ last.op = "reference"
    /\ last.arg.ty.variant = "Ecmascript"
    /\ \E ch \in Range(chunks_map[last.arg.ty].client_chunks) :
          extension(ChunkPath(ch)) = "js"
    /\ \E ch \in Range(chunks_map[last.arg.ty].client_chunks) :
          extension(ChunkPath(ch)) = "css"
    /\ entry_css_files[EntryName(last.arg.server_component[1])] # <<>>

\* C8: the ClientReferenceChunks of every Css type has an empty ssr_chunks,
\* in the resolved map and in the map the call returns.
C8_CssNoSsrChunks ==
    /\ \A ty \in CssTypes(DOMAIN chunks_map) : chunks_map[ty].ssr_chunks = <<>>
    /\ \A ty \in CssTypes(tys) :
          pc = "resolve" /\ branch[ty].state = "ok" => branch[ty].val.ssr_chunks = <<>>
    /\ result # None =>
          /\ CssTypes(tys) \subseteq DOMAIN result[1]
          /\ \A ty \in CssTypes(DOMAIN result[1]) : result[1][ty].ssr_chunks = <<>>

C8_Witness ==
    /\ pc = "done"
    /\ \E ty \in CssTypes(DOMAIN result[1]) : result[1][ty].client_chunks # <<>>

\* C18 as stated: the aggregation never completes successfully when a client
\* reference of the set has a type without resolved chunks.
C18_MissingChunksAlwaysFatal ==
    pc = "done" => \A r \in refs : Has(chunks_map, r.ty)

\* C18 amended: the aggregation never completes successfully when a client
\* reference that is attributed to a server component has a type without
\* resolved chunks, and the failure of the lookup is the panic of expect.
C18_AttributedMissingChunksFatal ==
    /\ pc = "done"
       => \A r \in refs : r.server_component # None => Has(chunks_map, r.ty)
    /\ (pc = "failed" /\ error.kind = "panic")
       => /\ error.at \in refs
          /\ error.at.server_component # None
          /\ ~Has(chunks_map, error.at.ty)
          /\ result = None

C18_Witness ==
    /\ pc = "failed"
    /\ error.kind = "panic"
    /\ error.at.ty \in found \ tys
    /\ tys # {}

\* the chunks the resolved types hold, counted with repetitions
RECURSIVE ChunkCount(_)
ChunkCount(T) ==
    IF T = {} THEN 0
    ELSE LET ty == CHOOSE t \in T : TRUE
         IN Len(chunks_map[ty].client_chunks) + Len(chunks_map[ty].ssr_chunks)
            + ChunkCount(T \ {ty})

\* C19: nothing is written to client_reference_manifest or all_chunks while
\* the branches run, every write happens after all branches have completed,
\* a branch writes nothing shared, and the pass that follows folds each type
\* of the set exactly once.
C19_TwoPhases ==
    /\ [](pc = "resolve" => (ManifestEmpty /\ all_chunks = InitialChunks))
    /\ [][ (manifestVars' # manifestVars \/ all_chunks' # all_chunks)
           => (pc = "aggregate" /\ \A ty \in tys : branch[ty].state = "ok") ]_vars
    /\ [][ branch' # branch
           => UNCHANGED <<manifestVars, all_chunks, chunks_map>> ]_vars
    /\ [][ fold_todo' # fold_todo
           => \/ (pc = "resolve" /\ fold_todo' = tys)
              \/ \E ty \in fold_todo : fold_todo' = fold_todo \ {ty} ]_vars
    /\ [](pc = "done"
          => /\ fold_todo = {}
             /\ DOMAIN chunks_map = tys
             /\ Len(all_chunks) = Len(InitialChunks) + ChunkCount(tys)
             /\ \A ty \in EcmascriptTypes(tys) : Has(produced, ty))

C19_Witness ==
    /\ pc = "done"
    /\ Cardinality(tys) = 2
    /\ Len(all_chunks) > Len(InitialChunks) + 2

\* C20: the references of a proxy are those of its compiled proxy module
\* followed by exactly one reference to the EcmascriptClientReferenceAsset
\* of the same server ident, client module and SSR module.
C20_ProxyReferences ==
    \A n \in graph :
        (n.variant = "Proxy" /\ references(n).ok)
        => LET r == references(n).val
               module == proxy_module_asset(n)
               marker == EcmascriptClientReferenceAsset(
                             n.server_module_ident, n.client_module, n.ssr_module)
           IN /\ module.ok
              /\ Len(r) = Len(ModuleReferences(module.val)) + 1
              /\ SubSeq(r, 1, Len(r) - 1) = ModuleReferences(module.val)
              /\ r[Len(r)] = AssetReference("client references", marker)
              /\ Cardinality({ i \in 1..Len(r) :
                                  r[i].description = "client references" }) = 1

C20_Witness ==
    /\ pc = "idle"
    /\ \E n \in graph :
          /\ n.variant = "Proxy"
          /\ references(n).ok
          /\ Len(references(n).val) = 2
          /\ references(n).val[2].asset \in found

\* C11: folding an Ecmascript type again in a later call, with unchanged
\* inputs, leaves under its keys of client_modules and under its client
\* module id of ssr_module_mapping the very entries (id, chunks, chunk order)
\* its first fold produced.
C11_RefoldSameEntries ==
    \A ty \in EcmascriptTypes(tys) :
        (runs >= 2 /\ last = Step("fold_ecmascript", ty))
        => /\ Has(produced, ty)
           /\ InsertedEntries(client_modules, ssr_module_mapping, ty) = produced[ty]

C11_Witness ==
    /\ runs = 2
    /\ \E ty \in EcmascriptTypes(tys) :
          /\ last = Step("fold_ecmascript", ty)
          /\ Len(ExportNames(get_exports(ty.client_asset))) >= 2
          /\ produced[ty].client # EmptyMap

-----------------------------------------------------------------------------
(* compute_page_entries_chunks                                              *)

\* Most page entries of one call.
MaxPages == 2

\* page_entries.rs:287  struct PageEntry; a pathname is the sequence of its
\* segments ("/blog/post" is <<"blog", "post">>)
PageEntry(pathname, ssr_asset, client_asset) ==
    [pathname |-> pathname, ssr_asset |-> ssr_asset, client_asset |-> client_asset]

\* pages/about.tsx and pages/about/index.tsx are two entries of one pathname
PageEntryCatalogue ==
    { PageEntry(<<"about">>, "pages/about.tsx", "pgA"),
      PageEntry(<<"about">>, "pages/about/index.tsx", "pgB"),
      PageEntry(<<"blog", "post">>, "pages/blog/post.tsx", "pgB") }

ManifestDirs == { <<"node", "server">>, <<"client">>, <<"dist">> }

\* client_chunking_context.evaluated_chunk_group(client_entry_chunk, runtime)
evaluated_chunk_group(m) ==
    CASE m = "pgA" -> <<c_js, c_css>>
      [] m = "pgB" -> <<c_css, c_out, c_js>>
      [] OTHER     -> <<>>

\* line 352: node_root.join("server/pages/{pathname}.js")
SsrEntryPath(pathname) ==
    FsPath(node_root \o <<"server", "pages">> \o SubSeq(pathname, 1, Len(pathname) - 1),
           pathname[Len(pathname)], "js")

\* lines 351-355: ssr_chunking_context.entry_chunk(path, ssr_asset, runtime)
entry_chunk(path, ssr_asset) == Chunk(path)

\* lines 358-363: pages_manifest after the entry chunk of one page
InsertPage(manifest, dir, pathname, chunk) ==
    LET asset_path == get_path_to(dir, ChunkPath(chunk)) IN
    IF asset_path # None
    THEN Insert(manifest, pathname, asset_path[1])
    ELSE manifest

RECURSIVE MutPushFront(_, _, _)
MutPushFront(list, dir, chunks) ==
    IF chunks = <<>> THEN list
    ELSE MutPushFront(get_path_to(dir, ChunkPath(Head(chunks))) \o list, dir, Tail(chunks))

\* lines 376-382: the list of a page after its chunks were pushed in turn
RECURSIVE PushChunkPaths(_, _, _)
PushChunkPaths(list, dir, chunks) ==
    IF chunks = <<>> THEN list
    ELSE PushChunkPaths(list \o get_path_to(dir, ChunkPath(Head(chunks))), dir, Tail(chunks))

InitPages ==
    /\ KeyIdle
    /\ graph = {}
    /\ found = {}
    /\ build_errors = {}
    /\ AppIdle
    /\ RunIdle
    /\ AssetIdle
    /\ pg_pc = "loop"
    /\ pg_next = 1
    /\ page_entries \in UNION { [1..n -> PageEntryCatalogue] : n \in 0..MaxPages }
    /\ pages_manifest_dir_path \in ManifestDirs
    /\ build_manifest_dir_path \in ManifestDirs
    /\ pages_manifest = EmptyMap
    /\ build_manifest = EmptyMap

\* lines 347-383: one iteration of the loop over the page entries
PageEntryStep ==
    /\ pg_pc = "loop"
    /\ pg_next <= Len(page_entries)
    /\ LET page_entry == page_entries[pg_next]
           pathname == page_entry.pathname
           ssr_entry_chunk == entry_chunk(SsrEntryPath(pathname), page_entry.ssr_asset)
           client_chunks == evaluated_chunk_group(page_entry.client_asset)
       IN /\ all_chunks' = all_chunks \o <<ssr_entry_chunk>> \o client_chunks
          /\ pages_manifest' = InsertPage(pages_manifest, pages_manifest_dir_path,
                                          pathname, ssr_entry_chunk)
          /\ build_manifest' =
                Insert(build_manifest, pathname,
                       PushChunkPaths(EntryOrDefault(build_manifest, pathname),
                                      build_manifest_dir_path, client_chunks))
    /\ pg_next' = pg_next + 1
    /\ UNCHANGED <<pg_pc, page_entries, pages_manifest_dir_path, build_manifest_dir_path,
                   keyVars, runVars, assetVars, graphVars, pc, tys, refs, branch, chunks_map, fold_todo,
                   refs_todo, manifestVars, result, error, last>>

\* lines 348-349: the await of the entry or of its pathname fails
PageEntryErr ==
    /\ pg_pc = "loop"
    /\ pg_next <= Len(page_entries)
    /\ pg_pc' = "failed"
    /\ UNCHANGED <<pg_next, page_entries, pages_manifest_dir_path,
                   build_manifest_dir_path, pages_manifest, build_manifest,
                   keyVars, runVars, assetVars, graphVars, appVars>>

\* line 358: the await of the entry chunk path fails, the chunk being pushed
PageSsrPathErr ==
    /\ pg_pc = "loop"
    /\ pg_next <= Len(page_entries)
    /\ all_chunks' = all_chunks
          \o << entry_chunk(SsrEntryPath(page_entries[pg_next].pathname),
                            page_entries[pg_next].ssr_asset) >>
    /\ pg_pc' = "failed"
    /\ UNCHANGED <<pg_next, page_entries, pages_manifest_dir_path,
                   build_manifest_dir_path, pages_manifest, build_manifest,
                   keyVars, runVars, assetVars, graphVars, pc, tys, refs, branch, chunks_map, fold_todo,
                   refs_todo, manifestVars, result, error, last>>

\* lines 376, 378: the await of the client chunks fails (k = 0), or the await
\* of the path of the k-th client chunk fails, that chunk being pushed
PageClientChunksErr ==
    /\ pg_pc = "loop"
    /\ pg_next <= Len(page_entries)
    /\ LET page_entry == page_entries[pg_next]
           pathname == page_entry.pathname
           ssr_entry_chunk == entry_chunk(SsrEntryPath(pathname), page_entry.ssr_asset)
           client_chunks == evaluated_chunk_group(page_entry.client_asset)
       IN \E k \in 0..Len(client_chunks) :
            /\ all_chunks' = all_chunks \o <<ssr_entry_chunk>> \o SubSeq(client_chunks, 1, k)
            /\ pages_manifest' = InsertPage(pages_manifest, pages_manifest_dir_path,
                                            pathname, ssr_entry_chunk)
            /\ build_manifest' =
                  IF k = 0 THEN build_manifest
                  ELSE Insert(build_manifest, pathname,
                              PushChunkPaths(EntryOrDefault(build_manifest, pathname),
                                             build_manifest_dir_path,
                                             SubSeq(client_chunks, 1, k - 1)))
    /\ pg_pc' = "failed"
    /\ UNCHANGED <<pg_next, page_entries, pages_manifest_dir_path, build_manifest_dir_path,
                   keyVars, runVars, assetVars, graphVars, pc, tys, refs, branch, chunks_map, fold_todo,
                   refs_todo, manifestVars, result, error, last>>

\* line 384: Ok(())
PagesReturn ==
    /\ pg_pc = "loop"
    /\ pg_next > Len(page_entries)
    /\ pg_pc' = "done"
    /\ UNCHANGED <<pg_next, page_entries, pages_manifest_dir_path,
                   build_manifest_dir_path, pages_manifest, build_manifest,
                   keyVars, runVars, assetVars, graphVars, appVars>>

NextPages ==
    \/ PageEntryStep
    \/ PageEntryErr
    \/ PageSsrPathErr
    \/ PageClientChunksErr
    \/ PagesReturn

SpecPages == InitPages /\ [][NextPages]_vars

Pathnames == { page_entries[i].pathname : i \in 1..Len(page_entries) }

OnlyEntryOfItsPathname(i) ==
    \A j \in 1..Len(page_entries) : j # i => page_entries[j].pathname # page_entries[i].pathname

\* The paths of the chunks relative to dir, in order, for the chunks under dir.
RelativePaths(dir, chunks) ==
    FilterMap(LAMBDA ch : IF IsPrefix(dir, ChunkPath(ch).dir)
                          THEN Some(FsPath(SubSeq(ChunkPath(ch).dir, Len(dir) + 1,
                                                  Len(ChunkPath(ch).dir)),
                                           ChunkPath(ch).stem, ChunkPath(ch).ext))
                          ELSE None,
              chunks)

\* C7 as stated: after the call, for every processed PageEntry with pathname
\* P, pages_manifest maps P to the relative path of the entry's SSR entry
\* chunk and build_manifest maps P to the relative paths of the entry's
\* client chunk group, in order and with nothing else in the list.
C7_OneEntryPerPage ==
    pg_pc = "done" =>
        \A i \in 1..Len(page_entries) :
            LET e == page_entries[i]
                ssr == RelativePaths(pages_manifest_dir_path,
                                     <<Chunk(SsrEntryPath(e.pathname))>>)
            IN /\ ssr # <<>>
               /\ Has(pages_manifest, e.pathname)
               /\ pages_manifest[e.pathname] = ssr[1]
               /\ Has(build_manifest, e.pathname)
               /\ build_manifest[e.pathname] =
                     RelativePaths(build_manifest_dir_path,
                                   evaluated_chunk_group(e.client_asset))

\* C7 amended: after the call, for every processed PageEntry that is the only
\* one of its pathname P: pages_manifest maps P to the relative path of the
\* entry's SSR entry chunk when that chunk lies under the pages manifest
\* directory and has no entry P otherwise; build_manifest maps P to the
\* relative paths of those client chunks of the entry that lie under the build
\* manifest directory, in chunk-group order and with nothing else in the
\* list.  No manifest has an entry for a pathname that was not processed.
C7_OneEntryPerDistinctPage ==
    pg_pc = "done" =>
        /\ DOMAIN build_manifest = Pathnames
        /\ DOMAIN pages_manifest \subseteq Pathnames
        /\ \A i \in 1..Len(page_entries) :
              OnlyEntryOfItsPathname(i) =>
                 LET e == page_entries[i]
                     ssr == RelativePaths(pages_manifest_dir_path,
                                          <<Chunk(SsrEntryPath(e.pathname))>>)
                 IN /\ ssr = <<>> => ~Has(pages_manifest, e.pathname)
                    /\ ssr # <<>> =>
                          /\ Has(pages_manifest, e.pathname)
                          /\ pages_manifest[e.pathname] = ssr[1]
                    /\ Has(build_manifest, e.pathname)
                    /\ build_manifest[e.pathname] =
                          RelativePaths(build_manifest_dir_path,
                                        evaluated_chunk_group(e.client_asset))

C7_Witness ==
    /\ pg_pc = "done"
    /\ Len(page_entries) = 2
    /\ OnlyEntryOfItsPathname(1)
    /\ Has(pages_manifest, page_entries[1].pathname)
    /\ Len(build_manifest[page_entries[1].pathname]) >= 2

-----------------------------------------------------------------------------
(* SpecKey: the key function applied to every pair of bounded strings.     *)

InitKey ==
    /\ k_pc = "input"
    /\ k_path \in Strings(MaxLen)
    /\ k_name \in Strings(MaxLen)
    /\ k_key = <<>>
    /\ k_split = [path |-> <<>>, name |-> <<>>]
    /\ graph = {}
    /\ found = {}
    /\ build_errors = {}
    /\ AppIdle
    /\ PagesIdle
    /\ RunIdle
    /\ AssetIdle

ComputeKey ==
    /\ k_pc = "input"
    /\ k_key' = get_client_reference_module_key(k_path, k_name)
    /\ k_pc' = "keyed"
    /\ UNCHANGED <<k_path, k_name, k_split, graphVars, appVars, pageVars, runVars, assetVars>>

ReadKey ==
    /\ k_pc = "keyed"
    /\ k_split' = SplitKey(k_key)
    /\ k_pc' = "split"
    /\ UNCHANGED <<k_path, k_name, k_key, graphVars, appVars, pageVars, runVars, assetVars>>

NextKey == ComputeKey \/ ReadKey

SpecKey == InitKey /\ [][NextKey]_vars

\* C9: get_client_reference_module_key(path, "*") is path unchanged, and for
\* every other export name it is path, then "#", then the name.
C9_KeyShape ==
    k_pc # "input" =>
        /\ (k_name = Star => k_key = k_path)
        /\ (k_name # Star =>
              /\ Len(k_key) = Len(k_path) + 1 + Len(k_name)
              /\ SubSeq(k_key, 1, Len(k_path)) = k_path
              /\ k_key[Len(k_path) + 1] = "#"
              /\ SubSeq(k_key, Len(k_path) + 2, Len(k_key)) = k_name)

C9_Witness ==
    /\ k_pc = "keyed"
    /\ k_name # Star
    /\ k_name # <<>>
    /\ k_path # <<>>

-----------------------------------------------------------------------------
(* The marker assets as nodes of the graph: ident, content, references.     *)

ecmascript_client_reference_modifier == "ecmascript client reference"
css_client_reference_modifier == "css client reference"
dynamic_modifier == "dynamic"
server_component_modifier == "Next.js server component"
client_proxy_modifier == "client proxy"

\* a css marker that takes the modifier of the ecmascript marker
MutIdentCssSharesModifier(node) ==
    CASE node.variant = "Ecmascript" ->
            with_modifier(node.server_ident, ecmascript_client_reference_modifier)
      [] node.variant = "Css" ->
            with_modifier(node.client_asset.ident, ecmascript_client_reference_modifier)
      [] node.variant = "Dynamic" ->
            with_modifier(node.client_entry_asset.ident, dynamic_modifier)
      [] node.variant = "ServerComponent" ->
            with_modifier(node.asset.ident, server_component_modifier)
      [] OTHER ->
            with_modifier(node.server_module_ident, client_proxy_modifier)

\* Asset::ident of the five assets
ident(node) ==
    CASE node.variant = "Ecmascript" ->
            with_modifier(node.server_ident, ecmascript_client_reference_modifier)
      [] node.variant = "Css" ->
            with_modifier(node.client_asset.ident, css_client_reference_modifier)
      [] node.variant = "Dynamic" ->
            with_modifier(node.client_entry_asset.ident, dynamic_modifier)
      [] node.variant = "ServerComponent" ->
            with_modifier(node.asset.ident, server_component_modifier)
      [] OTHER ->
            with_modifier(node.server_module_ident, client_proxy_modifier)

\* a server component that hands out the content of the module it wraps
MutContentOfWrapped(node) ==
    IF node.variant = "ServerComponent"
    THEN Ok(node.asset)
    ELSE Err("has no content")

\* Asset::content of the five assets
content(node) ==
    CASE node.variant = "Ecmascript" -> Err("EcmascriptClientReferenceAsset has no content")
      [] node.variant = "Css" -> Err("CssClientReferenceAsset has no content")
      [] node.variant = "Dynamic" -> Err("NextDynamicEntryAsset has no content")
      [] node.variant = "ServerComponent" ->
            Err("Next.js server component asset has no content")
      [] OTHER -> Err("proxy module asset has no content")

\* a dynamic entry marker that refers to its client entry asset
MutReferencesDynamicToEntry(node) ==
    CASE node.variant = "ServerComponent" ->
            << AssetReference("Next.js server component", node.asset) >>
      [] node.variant = "Dynamic" ->
            << AssetReference("dynamic", node.client_entry_asset) >>
      [] OTHER -> <<>>

\* Asset::references of the four marker assets
marker_references(node) ==
    CASE node.variant = "ServerComponent" ->
            << AssetReference("Next.js server component", node.asset) >>
      [] node.variant = "Css" -> <<>>
      [] node.variant = "Dynamic" -> <<>>
      [] node.variant = "Ecmascript" -> <<>>

-----------------------------------------------------------------------------
(* The transitions that put the markers and the proxy into the graph.       *)

\* context.with_transition(name).process(asset, ..): the module a context
\* transition is asked for
Processed(transition, asset) == [transition |-> transition, asset |-> asset]

\* embed_js::next_asset
next_asset(path) == [embedded |-> path]

MutProcessUncheckedSsr(asset, client_asset, ssr_asset) ==
    IF resolve_from(client_asset) = None
    THEN Err("client asset is not ecmascript chunk placeable")
    ELSE Ok(EcmascriptClientReferenceProxyModuleAsset(asset.ident, client_asset, ssr_asset))

\* NextEcmascriptClientReferenceTransition::process; client_asset and
\* ssr_asset are what client_transition and ssr_transition made of asset
NextEcmascriptClientReferenceTransition_process(asset, client_asset, ssr_asset) ==
    LET client_module == resolve_from(client_asset)
        ssr_module == resolve_from(ssr_asset)
    IN IF client_module = None
       THEN Err("client asset is not ecmascript chunk placeable")
       ELSE IF ssr_module = None
       THEN Err("SSR asset is not ecmascript chunk placeable")
       ELSE Ok(EcmascriptClientReferenceProxyModuleAsset(
                   asset.ident, client_module[1], ssr_module[1]))

MutProcessModuleUnchecked(asset) == Ok(NextServerComponentAsset(asset))

\* NextServerComponentTransition::process_module
NextServerComponentTransition_process_module(asset) ==
    LET module == resolve_from(asset)
    IN IF module = None
       THEN Err("not an ecmascript module")
       ELSE Ok(NextServerComponentAsset(module[1]))

\* NextDynamicTransition::process; client_asset is what client_transition
\* made of asset
NextDynamicTransition_process(asset, client_asset) ==
    Ok(NextDynamicEntryAsset(client_asset))

\* the entry module context.process builds from an embedded source and
\* its inner assets
InternalModule(source, inner_assets) == [source |-> source, inner_assets |-> inner_assets]

MutServerToClientAlwaysSsr(ssr, asset) ==
    LET client_chunks == Processed("next-client-chunks", asset)
        client_module == Processed("next-ssr-client-module", asset)
    IN [out |-> Ok(InternalModule(
                    next_asset("entry/app/server-to-client-ssr.tsx"),
                    Insert(Insert(EmptyMap, "CLIENT_MODULE", client_module),
                           "CLIENT_CHUNKS", client_chunks))),
        compiled |-> {client_chunks, client_module}]

\* NextServerToClientTransition::process: the module it returns and the
\* process calls it made
NextServerToClientTransition_process(ssr, asset) ==
    LET client_chunks == Processed("next-client-chunks", asset)
        client_module == Processed("next-ssr-client-module", asset)
    IN IF ssr
       THEN [out |-> Ok(InternalModule(
                       next_asset("entry/app/server-to-client-ssr.tsx"),
                       Insert(Insert(EmptyMap, "CLIENT_MODULE", client_module),
                              "CLIENT_CHUNKS", client_chunks))),
             compiled |-> {client_chunks, client_module}]
       ELSE [out |-> Ok(InternalModule(
                       next_asset("entry/app/server-to-client.tsx"),
                       Insert(EmptyMap, "CLIENT_CHUNKS", client_chunks))),
             compiled |-> {client_chunks}]

-----------------------------------------------------------------------------
(* A transition applied to an asset, and the accessors of a node read.      *)

AssetPaths == { FsPath(<<"app">>, "page", "tsx"), FsPath(<<"app">>, "button", "tsx") }

AssetIdents == { Ident(p, m) : p \in AssetPaths, m \in {<<>>, <<dynamic_modifier>>} }

Assets == { Asset(i, k) : i \in AssetIdents, k \in {"ecmascript", "css", "other"} }

EcmascriptAssets == { a \in Assets : a.kind = "ecmascript" }

\* the nodes the constructors build over these assets
MarkerNodes ==
    { EcmascriptClientReferenceAsset(i, c, s) :
          i \in AssetIdents, c \in EcmascriptAssets, s \in EcmascriptAssets }
    \cup { CssClientReferenceAsset(a) : a \in { x \in Assets : x.kind = "css" } }
    \cup { NextDynamicEntryAsset(a) : a \in Assets }
    \cup { NextServerComponentAsset(a) : a \in EcmascriptAssets }

AssetNodes ==
    MarkerNodes
    \cup { EcmascriptClientReferenceProxyModuleAsset(i, c, s) :
               i \in AssetIdents, c \in EcmascriptAssets, s \in EcmascriptAssets }

TransitionOut(transition, inputs, res) ==
    [transition |-> transition, inputs |-> inputs, result |-> res]

InitAssets ==
    /\ KeyIdle
    /\ graph = {}
    /\ found = {}
    /\ build_errors = {}
    /\ AppIdle
    /\ PagesIdle
    /\ RunIdle
    /\ t_pc = "input"
    /\ t_asset \in Assets
    /\ t_ssr \in BOOLEAN
    /\ t_out = None
    /\ t_compiled = {}
    /\ t_node = None
    /\ t_ident = None
    /\ t_content = None
    /\ t_refs = None

ProcessEcmascriptClientReference ==
    /\ t_pc = "input"
    /\ \E client_asset \in Assets, ssr_asset \in Assets :
          /\ t_out' = TransitionOut("ecmascript client reference",
                         [client_asset |-> client_asset, ssr_asset |-> ssr_asset],
                         NextEcmascriptClientReferenceTransition_process(
                             t_asset, client_asset, ssr_asset))
          /\ t_compiled' = { Processed("client_transition", t_asset),
                             Processed("ssr_transition", t_asset) }
    /\ t_pc' = "processed"
    /\ UNCHANGED <<t_asset, t_ssr, t_node, t_ident, t_content, t_refs,
                   keyVars, graphVars, appVars, pageVars, runVars>>

ProcessServerComponent ==
    /\ t_pc = "input"
    /\ t_out' = TransitionOut("server component", EmptyMap,
                              NextServerComponentTransition_process_module(t_asset))
    /\ t_compiled' = {}
    /\ t_pc' = "processed"
    /\ UNCHANGED <<t_asset, t_ssr, t_node, t_ident, t_content, t_refs,
                   keyVars, graphVars, appVars, pageVars, runVars>>

ProcessDynamic ==
    /\ t_pc = "input"
    /\ \E client_asset \in Assets :
          t_out' = TransitionOut("dynamic", [client_asset |-> client_asset],
                                 NextDynamicTransition_process(t_asset, client_asset))
    /\ t_compiled' = { Processed("client_transition", t_asset) }
    /\ t_pc' = "processed"
    /\ UNCHANGED <<t_asset, t_ssr, t_node, t_ident, t_content, t_refs,
                   keyVars, graphVars, appVars, pageVars, runVars>>

ProcessServerToClient ==
    /\ t_pc = "input"
    /\ LET r == NextServerToClientTransition_process(t_ssr, t_asset)
       IN /\ t_out' = TransitionOut("server to client", EmptyMap, r.out)
          /\ t_compiled' = r.compiled
    /\ t_pc' = "processed"
    /\ UNCHANGED <<t_asset, t_ssr, t_node, t_ident, t_content, t_refs,
                   keyVars, graphVars, appVars, pageVars, runVars>>

\* the nodes whose accessors can be read: the one a transition returned, or
\* any node of the graph before a transition ran
Inspectable ==
    IF t_pc = "input" THEN AssetNodes
    ELSE IF t_pc = "processed" /\ t_out.result.ok
            /\ t_out.transition # "server to client"
    THEN {t_out.result.val}
    ELSE {}

\* ident(), content() and references() of one node are read
Inspect(node) ==
    /\ node \in Inspectable
    /\ t_node' = Some(node)
    /\ t_ident' = ident(node)
    /\ t_content' = content(node)
    /\ t_refs' = IF node.variant = "Proxy" THEN None
                 ELSE Some(marker_references(node))
    /\ t_pc' = "inspected"
    /\ UNCHANGED <<t_asset, t_ssr, t_out, t_compiled,
                   keyVars, graphVars, appVars, pageVars, runVars>>

NextAssets ==
    \/ ProcessEcmascriptClientReference
    \/ ProcessServerComponent
    \/ ProcessDynamic
    \/ ProcessServerToClient
    \/ \E node \in Inspectable : Inspect(node)

SpecAssets == InitAssets /\ [][NextAssets]_vars

-----------------------------------------------------------------------------
(* Properties of the marker assets and of the transitions.                  *)

Inspected == t_pc = "inspected"

\* the transition of that name has been applied to t_asset
Ran(transition) == t_out # None /\ t_out.transition = transition

\* C12: content() of every marker and proxy node returns an error, whatever
\* the node and however it came about; it never returns content.
C12_ContentAlwaysFails ==
    Inspected => ~t_content.ok

C12_Witness ==
    /\ Inspected
    /\ t_out # None
    /\ t_out.transition = "ecmascript client reference"
    /\ t_node[1].variant = "Proxy"
    /\ ~t_content.ok

\* C13 as stated: references() of a Css marker, of a Dynamic entry marker
\* and of a ServerComponent wrapper is empty.
C13_PureMarkersNoReferences ==
    (Inspected /\ t_node[1].variant \in {"Css", "Dynamic", "ServerComponent"})
    => t_refs = Some(<<>>)

\* C13 amended: references() of a Css marker and of a Dynamic entry marker
\* is empty; references() of a ServerComponent wrapper holds exactly one
\* reference, to the module it wraps.
C13_MarkerReferences ==
    Inspected =>
        /\ t_node[1].variant \in {"Css", "Dynamic"} => t_refs = Some(<<>>)
        /\ t_node[1].variant = "ServerComponent"
           => /\ Len(t_refs[1]) = 1
              /\ t_refs[1][1].asset = t_node[1].asset

C13_Witness ==
    /\ Inspected
    /\ t_out # None
    /\ t_out.transition = "dynamic"
    /\ t_node[1].variant = "Dynamic"
    /\ t_refs = Some(<<>>)

\* the identity a node is built from
Origin(node) ==
    CASE node.variant = "Ecmascript" -> node.server_ident
      [] node.variant = "Css" -> node.client_asset.ident
      [] node.variant = "Dynamic" -> node.client_entry_asset.ident
      [] node.variant = "ServerComponent" -> node.asset.ident
      [] OTHER -> node.server_module_ident

ModifierOfVariant(variant) ==
    CASE variant = "Ecmascript" -> "ecmascript client reference"
      [] variant = "Css" -> "css client reference"
      [] variant = "Dynamic" -> "dynamic"
      [] variant = "ServerComponent" -> "Next.js server component"
      [] OTHER -> "client proxy"

\* C14: the ident of a marker or proxy node is its origin ident with the one
\* modifier of its variant appended; among the nodes built from the same
\* origin, those of the same variant have the same ident and those of another
\* variant a different one.
C14_IdentOriginPlusModifier ==
    Inspected =>
        LET node == t_node[1]
            origin == Origin(node)
            n == Len(origin.modifiers)
        IN /\ t_ident.path = origin.path
           /\ Len(t_ident.modifiers) = n + 1
           /\ SubSeq(t_ident.modifiers, 1, n) = origin.modifiers
           /\ t_ident.modifiers[n + 1] = ModifierOfVariant(node.variant)
           /\ \A other \in AssetNodes :
                 Origin(other) = origin
                 => ((other.variant = node.variant) <=> (ident(other) = t_ident))

C14_Witness ==
    /\ Inspected
    /\ t_node[1].variant = "Css"
    /\ \E other \in AssetNodes :
          /\ other.variant = "Ecmascript"
          /\ Origin(other) = Origin(t_node[1])
          /\ ident(other) # t_ident

\* C15: NextEcmascriptClientReferenceTransition.process fails, returning no
\* proxy, when the client result or the SSR result is not ecmascript chunk
\* placeable; otherwise it returns the proxy of the origin asset's ident with
\* exactly those client and SSR modules.
C15_ProxyOnlyFromPlaceable ==
    Ran("ecmascript client reference") =>
        LET c == t_out.inputs.client_asset
            s == t_out.inputs.ssr_asset
        IN IF c.kind = "ecmascript" /\ s.kind = "ecmascript"
           THEN /\ t_out.result.ok
                /\ t_out.result.val =
                     EcmascriptClientReferenceProxyModuleAsset(t_asset.ident, c, s)
           ELSE ~t_out.result.ok

C15_Witness ==
    /\ t_pc = "processed"
    /\ t_out.transition = "ecmascript client reference"
    /\ t_out.inputs.client_asset.kind = "ecmascript"
    /\ t_out.inputs.ssr_asset.kind = "css"
    /\ ~t_out.result.ok

\* C16: NextServerComponentTransition.process_module fails when the input is
\* not an ecmascript chunk placeable module; otherwise it returns the
\* NextServerComponentAsset of exactly that input, whose server_path() is the
\* path of the ident of the wrapped module.
C16_ServerComponentWraps ==
    Ran("server component") =>
        IF t_asset.kind = "ecmascript"
        THEN /\ t_out.result.ok
             /\ t_out.result.val.variant = "ServerComponent"
             /\ t_out.result.val.asset = t_asset
             /\ server_path(t_out.result.val) = t_asset.ident.path
        ELSE ~t_out.result.ok

C16_Witness ==
    /\ t_pc = "processed"
    /\ t_out.transition = "server component"
    /\ t_asset.kind = "other"
    /\ ~t_out.result.ok

\* C17: NextServerToClientTransition.process always asks for the client
\* chunks form of the module; with ssr the entry module gets exactly the
\* inner assets CLIENT_MODULE (the SSR form) and CLIENT_CHUNKS, without
\* ssr only CLIENT_CHUNKS, and no SSR form is asked for.
C17_ServerToClientInnerAssets ==
    Ran("server to client") =>
        LET client_chunks == Processed("next-client-chunks", t_asset)
            client_module == Processed("next-ssr-client-module", t_asset)
            inner == t_out.result.val.inner_assets
        IN /\ t_out.result.ok
           /\ client_chunks \in t_compiled
           /\ inner["CLIENT_CHUNKS"] = client_chunks
           /\ IF t_ssr
              THEN /\ DOMAIN inner = {"CLIENT_MODULE", "CLIENT_CHUNKS"}
                   /\ inner["CLIENT_MODULE"] = client_module
                   /\ t_compiled = {client_chunks, client_module}
              ELSE /\ DOMAIN inner = {"CLIENT_CHUNKS"}
                   /\ t_compiled = {client_chunks}

C17_Witness ==
    /\ t_pc = "processed"
    /\ t_out.transition = "server to client"
    /\ ~t_ssr
    /\ DOMAIN t_out.result.val.inner_assets = {"CLIENT_CHUNKS"}


-----------------------------------------------------------------------------
(* proxy generation: the exports of the generated module                    *)

GeneratedEsm(node) ==
    /\ node.variant = "Proxy"
    /\ get_exports(node.client_module).kind = "EsmExports"
    /\ proxy_module_asset(node).ok

\* the statements of the given kind in a generated module, in order
StatementsOf(code, kind) == SelectSeq(code, LAMBDA st : st.stmt = kind)

\* the export names other than default, in export order
NamedExports(node) ==
    SelectSeq(get_exports(node.client_module).exports, LAMBDA n : n # Default)

\* C21: a proxy generated for ESM exports has, for every export name other
\* than default, exactly one statement reading that property off the proxy
\* into a local alias and exactly one statement re-exporting the alias under
\* the name; the aliases are e0, e1, ... in export order, default takes no
\* number, and the aliases are pairwise distinct.
C21_EsmNamedReexports ==
    \A node \in graph :
        GeneratedEsm(node) =>
            LET code == proxy_module_asset(node).val
                named == NamedExports(node)
                reads == StatementsOf(code, "const e = proxy[named]")
                reexports == StatementsOf(code, "export { e as named }")
            IN /\ Len(reads) = Len(named)
               /\ Len(reexports) = Len(named)
               /\ \A i \in 1..Len(named) :
                     /\ reads[i] = Stmt("const e = proxy[named]", i - 1, named[i])
                     /\ reexports[i] = Stmt("export { e as named }", i - 1, named[i])
               /\ \A i, j \in 1..Len(reads) :
                     i # j => reads[i].alias # reads[j].alias
               /\ \A st \in Range(code) : st.named # Default

C21_Witness ==
    /\ pc = "idle"
    /\ \E node \in graph :
          /\ GeneratedEsm(node)
          /\ Len(NamedExports(node)) = 2
          /\ node \notin build_errors
    /\ \E node \in graph :
          /\ GeneratedEsm(node)
          /\ Default \in Range(get_exports(node.client_module).exports)
          /\ Len(NamedExports(node)) = 1

\* C22: for CommonJs exports the generation succeeds and the generated
\* module is the prelude followed by the two sentinel exports and the
\* default export; it has no named re-export.
C22_CommonJsSentinelAndDefault ==
    \A node \in graph :
        (node.variant = "Proxy" /\ get_exports(node.client_module).kind = "CommonJs")
        => LET module == proxy_module_asset(node) IN
           /\ module.ok
           /\ module.val = ProxyPrelude \o SentinelAndDefault
           /\ StatementsOf(module.val, "export { e as named }") = <<>>
           /\ StatementsOf(module.val, "const e = proxy[named]") = <<>>
           /\ pc # "graph" => node \notin build_errors

C22_Witness ==
    /\ pc = "idle"
    /\ \E node \in graph :
          /\ node.variant = "Proxy"
          /\ get_exports(node.client_module).kind = "CommonJs"
          /\ MarkersOf(node) \subseteq found
          /\ MarkersOf(node) # {}

\* C30: in a generated proxy module the sentinel export and the default
\* export each appear exactly once when the exports are CommonJs or ESM
\* with a default export, and not at all when they are ESM without one.
C30_SentinelAndDefaultOnce ==
    \A node \in graph :
        (node.variant = "Proxy" /\ proxy_module_asset(node).ok)
        => LET code == proxy_module_asset(node).val
               exports == get_exports(node.client_module)
               sentinel == Len(StatementsOf(code, "export { __esModule, $$typeof }"))
               default == Len(StatementsOf(code, "export default __default__"))
               expected == IF \/ exports.kind = "CommonJs"
                              \/ Default \in Range(exports.exports)
                           THEN 1 ELSE 0
           IN /\ sentinel = expected
              /\ default = expected

C30_Witness ==
    /\ pc = "idle"
    /\ \E node \in graph :
          /\ GeneratedEsm(node)
          /\ Default \notin Range(get_exports(node.client_module).exports)
          /\ StatementsOf(proxy_module_asset(node).val,
                          "export default __default__") = <<>>
    /\ \E node \in graph :
          /\ GeneratedEsm(node)
          /\ Default \in Range(get_exports(node.client_module).exports)

-----------------------------------------------------------------------------
(* the sequential pass: chunk paths, wildcard entries, shared module ids    *)

\* the chunks whose path lies under root, in the order of the chunk group
ChunksUnder(root, chunks) ==
    SelectSeq(chunks, LAMBDA ch : IsPrefix(root, ChunkPath(ch).dir))

\* their paths with the root taken off, in the same order
PathsUnder(root, chunks) ==
    LET kept == ChunksUnder(root, chunks) IN
    [ i \in 1..Len(kept) |->
        FsPath(SubSeq(ChunkPath(kept[i]).dir, Len(root) + 1, Len(ChunkPath(kept[i]).dir)),
               ChunkPath(kept[i]).stem, ChunkPath(kept[i]).ext) ]

\* the keys of client_modules written for a server path
KeysOfPath(cm, p) == { k \in DOMAIN cm : k = p \/ (Len(k) > Len(p) /\ SubSeq(k, 1, Len(p) + 1) = p \o Hash) }

\* C23: the fold of an Ecmascript type does not fail on a client chunk that
\* is not under the client root or an SSR chunk that is not under the node
\* root: such a chunk is left out of the chunks lists of the entries of the
\* type, which hold the relative paths of the other chunks in the order of
\* the chunk group, and the chunk asset is still added to all_chunks.
C23_OutsideChunksDropped ==
    last.op = "fold_ecmascript" =>
        LET ty == last.arg
            p == ty.server_ident.path
            c == ClientId(ty)
            client == chunks_map[ty].client_chunks
            ssr == chunks_map[ty].ssr_chunks
        IN /\ pc = "aggregate"
           /\ error = NoError
           /\ KeysOfPath(client_modules, p) # {}
           /\ \A k \in KeysOfPath(client_modules, p) :
                 client_modules[k].chunks = PathsUnder(client_root, client)
           /\ Has(ssr_module_mapping, c)
           /\ \A n \in DOMAIN ssr_module_mapping[c] :
                 ssr_module_mapping[c][n].chunks = PathsUnder(node_root, ssr)
           /\ Range(client) \cup Range(ssr) \subseteq Range(all_chunks)

C23_Witness ==
    /\ last.op = "fold_ecmascript"
    /\ c_out \in Range(chunks_map[last.arg].client_chunks)
    /\ s_out \in Range(chunks_map[last.arg].ssr_chunks)
    /\ c_out \in Range(all_chunks)
    /\ s_out \in Range(all_chunks)
    /\ Len(client_modules[last.arg.server_ident.path].chunks) = 2
    /\ Len(ssr_module_mapping[ClientId(last.arg)][Star].chunks) = 1

\* C24: the fold of a Css type leaves client_modules and ssr_module_mapping
\* as they were and appends the client chunks of the type to all_chunks.
C24_CssFoldFrame ==
    [][ (last'.op = "fold_css" /\ fold_todo' # fold_todo) =>
          /\ client_modules' = client_modules
          /\ ssr_module_mapping' = ssr_module_mapping
          /\ entry_css_files' = entry_css_files
          /\ all_chunks' = all_chunks \o chunk_group(last'.arg.client_asset)
      ]_vars

C24_Witness ==
    /\ last.op = "fold_css"
    /\ client_modules # EmptyMap
    /\ ssr_module_mapping # EmptyMap
    /\ Len(all_chunks) > Len(InitialChunks) + 2

\* C25: entry_css_files is written only for a reference with a server
\* component: passing over a reference without one adds no key and no path;
\* a Css reference attributed to a route appends, under the server path of
\* the route with its extension removed, the client-root-relative path of
\* every client chunk of the type, whatever its extension.
C25_CssReferenceAllPaths ==
    [][ /\ (last'.op = "reference_skip" /\ refs_todo' # refs_todo) =>
              /\ last'.arg.server_component = None
              /\ entry_css_files' = entry_css_files
        /\ (last'.op = "reference" /\ refs_todo' # refs_todo) =>
              /\ last'.arg.server_component # None
              /\ DOMAIN entry_css_files' =
                    DOMAIN entry_css_files
                      \cup { [server_path(last'.arg.server_component[1]) EXCEPT !.ext = ""] }
        /\ (last'.op = "reference" /\ refs_todo' # refs_todo
                /\ last'.arg.ty.variant = "Css") =>
              LET r == last'.arg
                  route == [server_path(r.server_component[1]) EXCEPT !.ext = ""]
                  old == IF route \in DOMAIN entry_css_files
                         THEN entry_css_files[route] ELSE <<>>
              IN /\ entry_css_files'[route] =
                       old \o PathsUnder(client_root, chunk_group(r.ty.client_asset))
                 /\ \A k \in DOMAIN entry_css_files :
                       k # route => entry_css_files'[k] = entry_css_files[k]
      ]_vars

C25_Witness ==
    /\ last.op = "reference"
    /\ last.arg.ty.variant = "Css"
    /\ refs \ refs_todo # {last.arg}
    /\ \E r \in refs \ refs_todo : r.server_component = None
    /\ DOMAIN entry_css_files = { FsPath(<<"app">>, "page", "") }
    /\ \E i \in DOMAIN entry_css_files[FsPath(<<"app">>, "page", "")] :
          entry_css_files[FsPath(<<"app">>, "page", "")][i].ext = "js"

\* C27: the wildcard entries are written for every Ecmascript type whatever
\* the kind of its exports; for a type whose exports are not ESM the fold
\* writes exactly one client_modules entry, under the server path itself,
\* and an ssr_module_mapping node that holds the name "*" alone.
C27_WildcardOnlyForNonEsm ==
    last.op = "fold_ecmascript" =>
        LET ty == last.arg
            p == ty.server_ident.path
            c == ClientId(ty)
        IN /\ Has(client_modules, p)
           /\ client_modules[p].name = Star
           /\ Has(ssr_module_mapping, c)
           /\ Has(ssr_module_mapping[c], Star)
           /\ ssr_module_mapping[c][Star].name = Star
           /\ get_exports(ty.client_asset).kind # "EsmExports" =>
                 /\ KeysOfPath(client_modules, p) = {p}
                 /\ DOMAIN ssr_module_mapping[c] = {Star}

C27_Witness ==
    /\ last.op = "fold_ecmascript"
    /\ get_exports(last.arg.client_asset).kind = "CommonJs"
    /\ Cardinality(DOMAIN client_modules) > 1
    /\ DOMAIN ssr_module_mapping[ClientId(last.arg)] = {Star}

\* the Ecmascript types of the call folded so far
Folded == EcmascriptTypes(tys) \ fold_todo

\* C29: ssr_module_mapping holds one node per client module id and the fold
\* never merges nodes: the node under a client module id is the node of one
\* type alone, the one folded last among the types with that id, while
\* client_modules keeps the entries of every folded type.
C29_SharedIdNodeReplaced ==
    pc \in {"aggregate", "done"} =>
        /\ \A c \in DOMAIN ssr_module_mapping :
              \E ty \in Folded :
                 /\ ClientId(ty) = c
                 /\ DOMAIN ssr_module_mapping[c] =
                       {Star} \cup Range(ExportNames(get_exports(ty.client_asset)))
                 /\ \A n \in DOMAIN ssr_module_mapping[c] :
                       ssr_module_mapping[c][n].id = SsrId(ty)
        /\ last.op = "fold_ecmascript" =>
              /\ DOMAIN ssr_module_mapping[ClientId(last.arg)] =
                    {Star} \cup Range(ExportNames(get_exports(last.arg.client_asset)))
              /\ \A n \in DOMAIN ssr_module_mapping[ClientId(last.arg)] :
                    ssr_module_mapping[ClientId(last.arg)][n].id = SsrId(last.arg)
        /\ \A ty \in Folded :
              \A n \in {Star} \cup Range(ExportNames(get_exports(ty.client_asset))) :
                 Has(client_modules,
                     get_client_reference_module_key(ty.server_ident.path, n))

C29_Witness ==
    /\ pc = "done"
    /\ Cardinality(Folded) = 2
    /\ \A ty \in Folded : ClientId(ty) = NumberId(3)
    /\ Cardinality(DOMAIN ssr_module_mapping) = 1
    /\ Cardinality(DOMAIN client_modules) = 6
    /\ Default \notin DOMAIN ssr_module_mapping[NumberId(3)]

-----------------------------------------------------------------------------
(* the order of entry_css_files and the content of all_chunks               *)

\* The order in which the traversal meets the client modules of the
\* references it collects, before they are handed over as a set.
DiscoveryOrder == << "cssA", "cmA", "cmB", "cmC", "cmD", "cmE" >>

DiscoveryRank(r) ==
    CHOOSE i \in 1..Len(DiscoveryOrder) : DiscoveryOrder[i] = r.ty.client_asset

\* the references of a set, in discovery order
RECURSIVE InDiscoveryOrder(_)
InDiscoveryOrder(R) ==
    IF R = {} THEN <<>>
    ELSE LET first == CHOOSE r \in R :
                        \A q \in R : DiscoveryRank(r) <= DiscoveryRank(q)
         IN <<first>> \o InDiscoveryOrder(R \ {first})

\* the paths one attributed reference contributes to its route
Contribution(r) ==
    IF r.ty.variant = "Css"
    THEN PathsUnder(client_root, chunk_group(r.ty.client_asset))
    ELSE SelectSeq(PathsUnder(client_root, chunk_group(r.ty.client_asset)),
                   LAMBDA path : path.ext = "css")

\* the references of the call attributed to a route
ReferencesOfRoute(route) ==
    { r \in refs : r.server_component # None
                     /\ EntryName(r.server_component[1]) = route }

\* C26: after a successful call the list of every route in entry_css_files
\* is the concatenation of the paths contributed by the references of the
\* route taken in discovery order.
C26_DiscoveryOrder ==
    pc = "done" =>
        \A route \in DOMAIN entry_css_files :
            LET ordered == InDiscoveryOrder(ReferencesOfRoute(route))
            IN entry_css_files[route] =
                 Flatten([ i \in 1..Len(ordered) |-> Contribution(ordered[i]) ])

\* the number of times x occurs in the sequence s
Occurrences(s, x) == Cardinality({ i \in 1..Len(s) : s[i] = x })

\* the number of times a chunk occurs in the chunk lists of the types of T
RECURSIVE OccurrencesIn(_, _)
OccurrencesIn(T, ch) ==
    IF T = {} THEN 0
    ELSE LET ty == CHOOSE t \in T : TRUE
         IN Occurrences(chunks_map[ty].client_chunks \o chunks_map[ty].ssr_chunks, ch)
            + OccurrencesIn(T \ {ty}, ch)

\* C28 as stated: after a successful call all_chunks contains every client
\* and SSR chunk of every resolved type, starts with what it held before
\* the call, and holds no chunk asset more than once.
C28_AllChunksSetUnion ==
    pc = "done" =>
        /\ \A ty \in DOMAIN chunks_map :
              Range(chunks_map[ty].client_chunks) \cup Range(chunks_map[ty].ssr_chunks)
                 \subseteq Range(all_chunks)
        /\ SubSeq(all_chunks, 1, Len(InitialChunks)) = InitialChunks
        /\ \A ch \in Range(all_chunks) : Occurrences(all_chunks, ch) = 1

\* C28 amended: after a successful call all_chunks contains every client
\* and SSR chunk of every resolved type and starts with what it held before
\* the call; the chunks are appended type by type without deduplication, so
\* a chunk occurs once for each occurrence in the chunk lists of the types.
C28_AllChunksAppended ==
    pc = "done" =>
        /\ \A ty \in DOMAIN chunks_map :
              Range(chunks_map[ty].client_chunks) \cup Range(chunks_map[ty].ssr_chunks)
                 \subseteq Range(all_chunks)
        /\ Len(all_chunks) >= Len(InitialChunks)
        /\ SubSeq(all_chunks, 1, Len(InitialChunks)) = InitialChunks
        /\ \A ch \in Range(all_chunks) :
              Occurrences(all_chunks, ch) =
                 Occurrences(InitialChunks, ch) + OccurrencesIn(DOMAIN chunks_map, ch)

C28_Witness ==
    /\ pc = "done"
    /\ Cardinality(DOMAIN chunks_map) = 2
    /\ Occurrences(all_chunks, c_js) = 2
    /\ Occurrences(all_chunks, s_js) = 1

=============================================================================
